---- MODULE Spec2Model ----
(***************************************************************************)
(* Model of diffoscope's Alpine APK comparator                             *)
(* (diffoscope/comparators/alpine_apk.py): variant detection, the metadata *)
(* comparison of compare_details, the member enumeration and the lifecycle *)
(* of the two container classes.                                           *)
(*                                                                         *)
(* Bytes and characters are their integer codes; a string is a sequence of *)
(* codes, so that Python's str/bytes ordering is the lexicographic order   *)
(* of the sequences.                                                       *)
(***************************************************************************)
EXTENDS Integers, Sequences, FiniteSets, TLC

VARIABLES
    dfile,      \* detection: the file detect_apk_version is applied to
    dresult,    \* detection: outcome of the call
    fs,         \* comparison: side -> file (readable, content, body)
    tools,      \* comparison: metadata operation -> is its tool installed
    runs,       \* comparison: <<operation, side>> -> does the command run
    cmp,        \* comparison: outcome of the compare_details call
    tree,       \* enumeration: the extracted files (set of segment sequences)
    walk1,      \* enumeration: member list of a first open_archive walk
    walk2,      \* enumeration: member list of a second walk of the same tree
    box,        \* container: the container object and the temp directories
    last        \* container: the last call made on the container

vars == <<dfile, dresult, fs, tools, runs, cmp, tree, walk1, walk2, box, last>>

(***************************************************************************)
(* Bounds.                                                                 *)
(***************************************************************************)
\* longest file content drawn for detection
MaxFileLen == 4
\* number of distinct metadata records a package may carry
NumBodies == 2
\* deepest extracted path, in segments
MaxDepth == 2
\* most files in an extracted tree
MaxFiles == 3

(***************************************************************************)
(* Bytes and strings.                                                      *)
(***************************************************************************)
Take(s, n) == SubSeq(s, 1, IF Len(s) < n THEN Len(s) ELSE n)

\* bytes.startswith / str.startswith
StartsWith(s, p) == Len(s) >= Len(p) /\ SubSeq(s, 1, Len(p)) = p

\* b"ADBd"
MagicADBd == <<65, 68, 66, 100>>
\* b"\x1f\x8b"
MagicGzip == <<31, 139>>
\* f.read(16)
HeaderReadSize == 16

\* the value Python's None is modelled by (falsy, like None)
None == 0

SeqsUpTo(S, n) == UNION {[1..k -> S] : k \in 0..n}

(***************************************************************************)
(* detect_apk_version                                                      *)
(***************************************************************************)
\* open(path, "rb") raises OSError for a missing or unreadable file
OpenRaisesOSError(f) == ~f.readable

Returned(v) == [raised |-> FALSE, value |-> v]

\* detect_apk_version with the try/except removed
detect_apk_version_unguarded(f) ==
    IF OpenRaisesOSError(f)
    THEN [raised |-> TRUE, value |-> None]
    ELSE LET header == Take(f.content, HeaderReadSize)
         IN  IF StartsWith(header, MagicADBd) THEN Returned(3)
             ELSE IF StartsWith(header, MagicGzip) THEN Returned(2)
             ELSE Returned(None)

detect_apk_version(f) ==
    IF OpenRaisesOSError(f)
    THEN Returned(None)                       \* except (IOError, OSError)
    ELSE LET header == Take(f.content, HeaderReadSize)
         IN  IF StartsWith(header, MagicADBd) THEN Returned(3)
             ELSE IF StartsWith(header, MagicGzip) THEN Returned(2)
             ELSE Returned(None)

(***************************************************************************)
(* AlpineApkFile.compare_details and the two metadata commands             *)
(***************************************************************************)
Sides == {"a", "b"}
Ops == {"v3", "v2"}

\* @tool_required("apk") on AlpineApkV3Metadata.cmdline, @tool_required("tar")
\* on AlpineApkV2Metadata.cmdline
ToolRequired(op) == IF op = "v3" THEN "apk" ELSE "tar"

\* AlpineApkV2Metadata / AlpineApkV3Metadata: what the command prints for a
\* file, the package's metadata record as that tool renders it
CommandOutput(op, f) == <<op, f.body>>

NoDiff == [present |-> FALSE, op |-> "", out1 |-> <<>>, out2 |-> <<>>]

\* Difference.from_operation(op, path1, path2): runs the command on both
\* paths; raises when the tool is missing or a command fails; None when the
\* two outputs are equal
from_operation(op, p1, p2) ==
    IF ~tools[ToolRequired(op)]
    THEN [raised |-> TRUE, exc |-> "RequiredToolNotFound", diff |-> NoDiff]
    ELSE IF ~runs[<<op, p1>>] \/ ~runs[<<op, p2>>]
    THEN [raised |-> TRUE, exc |-> "CalledProcessError", diff |-> NoDiff]
    ELSE LET o1 == CommandOutput(op, fs[p1])
             o2 == CommandOutput(op, fs[p2])
         IN  [raised |-> FALSE, exc |-> "",
              diff |-> IF o1 = o2 THEN NoDiff
                       ELSE [present |-> TRUE, op |-> op, out1 |-> o1, out2 |-> o2]]

Comment(kind, a, b, exc) == [kind |-> kind, a |-> a, b |-> b, exc |-> exc]

\* the comment added when both versions are truthy
VersionComments(my, ov) ==
    IF my # None /\ ov # None
    THEN IF my # ov
         THEN <<Comment("mismatch", my, ov, "")>>
         ELSE <<Comment("same", my, my, "")>>
    ELSE <<>>

\* the order in which the "mixed versions or unknown" branch tries the
\* metadata commands
FallbackOrder_first_variant(my, ov) ==
    IF my = 2 THEN <<"v2", "v3">> ELSE <<"v3", "v2">>

FallbackOrder(my, ov) == <<"v3", "v2">>

\* the outer handler, "except Exception": both failures are Exceptions
OuterHandlerCatches_only_process_errors(exc) == exc = "CalledProcessError"

OuterHandlerCatches(exc) == exc \in {"RequiredToolNotFound", "CalledProcessError"}

\* "if metadata_diff is not None: differences.append(metadata_diff)"
AppendMetadataDiff_unconditional(differences, diff) == Append(differences, diff)

AppendMetadataDiff(differences, diff) ==
    IF diff.present THEN Append(differences, diff) ELSE differences

\* the try block of lines 235-255: the commands attempted, in order, and the
\* outcome of the last one
MetadataDiff(self, other, my, ov) ==
    IF my = 3 /\ ov = 3
    THEN [attempts |-> <<"v3">>, res |-> from_operation("v3", self, other)]
    ELSE IF my = 2 /\ ov = 2
    THEN [attempts |-> <<"v2">>, res |-> from_operation("v2", self, other)]
    ELSE LET order == FallbackOrder(my, ov)
             first == from_operation(order[1], self, other)
         IN  IF first.raised                   \* bare "except:"
             THEN [attempts |-> order,
                   res |-> from_operation(order[2], self, other)]
             ELSE [attempts |-> <<order[1]>>, res |-> first]

\* the order of the visible steps of one call
OpEvents(attempts) ==
    [i \in 1..Len(attempts) |-> IF attempts[i] = "v3" THEN "op:v3" ELSE "op:v2"]

CommentEvents(comments) == [i \in 1..Len(comments) |-> "comment:version"]

compare_details(self, other) ==
    LET d1 == detect_apk_version(fs[self])
        d2 == detect_apk_version(fs[other])
        my == d1.value
        ov == d2.value
        vc == VersionComments(my, ov)
        md == MetadataDiff(self, other, my, ov)
        base == [done |-> TRUE, self |-> self, other |-> other,
                 my |-> my, ov |-> ov, attempts |-> md.attempts,
                 raised |-> FALSE, comments |-> vc, differences |-> <<>>,
                 events |-> CommentEvents(vc) \o OpEvents(md.attempts)]
    IN  IF d1.raised \/ d2.raised
        THEN \* detection runs outside the try block
             [base EXCEPT !.raised = TRUE, !.attempts = <<>>,
                          !.comments = <<>>, !.events = <<>>]
        ELSE IF md.res.raised
        THEN IF OuterHandlerCatches(md.res.exc)
             THEN [base EXCEPT
                     !.comments = Append(vc, Comment("failed", None, None, md.res.exc)),
                     !.events = Append(base.events, "comment:failed")]
             ELSE [base EXCEPT !.raised = TRUE]
        ELSE LET diffs == AppendMetadataDiff(<<>>, md.res.diff)
             IN  [base EXCEPT
                     !.differences = diffs,
                     !.events = IF Len(diffs) > 0
                                THEN Append(base.events, "append:diff")
                                ELSE base.events]

NotCalled ==
    [done |-> FALSE, self |-> "a", other |-> "a", my |-> None, ov |-> None,
     attempts |-> <<>>, raised |-> FALSE, comments |-> <<>>,
     differences |-> <<>>, events |-> <<>>]

(***************************************************************************)
(* Member enumeration: the os.walk loop of both open_archive methods       *)
(***************************************************************************)
\* "a", "a-b", "b": names of extracted files and directories
Names == {<<97>>, <<97, 45, 98>>, <<98>>}

\* os.sep
Sep == 47

\* self._tmpdir.name, "/t"
TmpName == <<47, 116>>

\* Python's str "<": lexicographic on the codes
StrLess(s, t) ==
    \E k \in 1..(Len(t)) :
        /\ k <= Len(s) + 1
        /\ \A i \in 1..(k - 1) : s[i] = t[i]
        /\ (k = Len(s) + 1 \/ s[k] < t[k])

RECURSIVE InsertSorted(_, _)
InsertSorted(x, sorted) ==
    IF sorted = <<>> THEN <<x>>
    ELSE IF StrLess(x, Head(sorted)) THEN <<x>> \o sorted
    ELSE <<Head(sorted)>> \o InsertSorted(x, Tail(sorted))

\* the loop with dirs.sort() and files.sort() left out
SortNames_unsorted(seq) == seq

\* list.sort() of dirs.sort() / files.sort()
RECURSIVE SortNames(_)
SortNames(seq) ==
    IF seq = <<>> THEN <<>> ELSE InsertSorted(Head(seq), SortNames(Tail(seq)))

\* the orders in which the filesystem may return directory entries
Perms == {p \in [1..Cardinality(Names) -> Names] :
            \A i, j \in 1..Cardinality(Names) : i # j => p[i] # p[j]}

\* the entries S of one directory as the filesystem returns them
Listing(S, perm) == SelectSeq(perm, LAMBDA n : n \in S)

\* os.path.join
PathJoin(a, b) ==
    IF Len(a) > 0 /\ a[Len(a)] = Sep THEN a \o b ELSE a \o <<Sep>> \o b

RECURSIVE JoinAll(_, _)
JoinAll(base, segs) ==
    IF segs = <<>> THEN base ELSE JoinAll(PathJoin(base, Head(segs)), Tail(segs))

\* abspath[len(self._tmpdir.name) + 1:]
RelPath(abspath) == SubSeq(abspath, Len(TmpName) + 2, Len(abspath))

\* the files and subdirectories directly inside the directory `prefix`
FilesIn(t, prefix) ==
    {p[Len(prefix) + 1] : p \in {q \in t : /\ Len(q) = Len(prefix) + 1
                                           /\ SubSeq(q, 1, Len(prefix)) = prefix}}
DirsIn(t, prefix) ==
    {p[Len(prefix) + 1] : p \in {q \in t : /\ Len(q) > Len(prefix) + 1
                                           /\ SubSeq(q, 1, Len(prefix)) = prefix}}

\* for root, dirs, files in os.walk(self._tmpdir.name): top-down, the
\* files of a directory first, then its subdirectories in the order of dirs
RECURSIVE Walk(_, _, _), WalkDirs(_, _, _, _)
Walk(t, prefix, perm) ==
    LET files == SortNames(Listing(FilesIn(t, prefix), perm))
        dirs == SortNames(Listing(DirsIn(t, prefix), perm))
        root == JoinAll(TmpName, prefix)
        here == [i \in 1..Len(files) |-> RelPath(PathJoin(root, files[i]))]
    IN  here \o WalkDirs(t, prefix, perm, dirs)
WalkDirs(t, prefix, perm, dirs) ==
    IF dirs = <<>> THEN <<>>
    ELSE Walk(t, Append(prefix, Head(dirs)), perm)
           \o WalkDirs(t, prefix, perm, Tail(dirs))

\* the extracted trees drawn for enumeration
AllPaths == UNION {[1..k -> Names] : k \in 1..MaxDepth}

RECURSIVE SetsUpTo(_, _)
SetsUpTo(S, n) ==
    IF n = 0 THEN {{}}
    ELSE LET smaller == SetsUpTo(S, n - 1)
         IN  smaller \cup {T \cup {x} : T \in smaller, x \in S}

\* a name is a file or a directory, never both
ValidTree(t) ==
    \A p, q \in t : ~(Len(p) < Len(q) /\ SubSeq(q, 1, Len(p)) = p)

Trees == {t \in SetsUpTo(AllPaths, MaxFiles) : ValidTree(t)}

NotWalked == [done |-> FALSE, members |-> <<>>]

(***************************************************************************)
(* AlpineApkV2Container / AlpineApkV3Container                             *)
(***************************************************************************)
Kinds == {"v2", "v3"}

\* the files an extraction command may write into the workspace: "b", "a/b"
ExtractPaths == {<<<<98>>>>, <<<<97>>, <<98>>>>}

\* one run of an extraction command: its exit status and what it wrote
AttemptOutcomes == [ok : BOOLEAN, wrote : SUBSET ExtractPaths]

\* tempfile.TemporaryDirectory.cleanup(): removes the directory, and is a
\* no-op on a directory already removed
Cleanup(live, id) == live \ {id}

\* sh -c "gunzip | gunzip | tar 2>/dev/null || gunzip | tar": the second
\* pipeline runs only when the first fails; the status is the last one run
V2Shell(o) ==
    IF o[1].ok THEN [ok |-> TRUE, ran |-> <<o[1]>>]
    ELSE [ok |-> o[2].ok, ran |-> <<o[1], o[2]>>]

\* try: check_call(cmd) except CalledProcessError: check_call(tar -xzf)
V2Extract(o) ==
    LET sh == V2Shell(o)
    IN  IF sh.ok THEN sh ELSE [ok |-> o[3].ok, ran |-> Append(sh.ran, o[3])]

\* check_call(["apk", "--allow-untrusted", "extract", ...])
V3Extract(o) == [ok |-> o[1].ok, ran |-> <<o[1]>>]

RECURSIVE WrittenBy(_)
WrittenBy(ran) ==
    IF ran = <<>> THEN {} ELSE Head(ran).wrote \cup WrittenBy(Tail(ran))

\* get_temporary_directory(): a fresh directory under a unique name
AcquireTmp(b) ==
    [b EXCEPT !.tmpdir = b.nextId, !.live = @ \cup {b.nextId}, !.nextId = @ + 1]

\* open_archive of both classes; o are the outcomes the extraction commands
\* would have, perm the order the filesystem lists entries in
open_archive(b, o, perm) ==
    IF ~b.toolPresent
    THEN \* @tool_required raises before the body runs
         [box |-> [b EXCEPT !.phase = "open_failed"], raised |-> TRUE]
    ELSE LET b1 == AcquireTmp([b EXCEPT !.hasMembers = TRUE, !.members = <<>>])
             ex == IF b.kind = "v2" THEN V2Extract(o) ELSE V3Extract(o)
             b2 == [b1 EXCEPT !.ran = ex.ran, !.disk = WrittenBy(ex.ran)]
         IN  IF ex.ok
             THEN [box |-> [b2 EXCEPT !.members = Walk(b2.disk, <<>>, perm),
                                      !.phase = "open"],
                   raised |-> FALSE]
             ELSE [box |-> [b2 EXCEPT !.phase = "open_failed"], raised |-> TRUE]

\* close_archive with the hasattr guard left out
close_archive_no_guard(b) ==
    IF b.tmpdir = None
    THEN [box |-> b, raised |-> TRUE]
    ELSE [box |-> [b EXCEPT !.live = Cleanup(@, b.tmpdir), !.disk = {},
                            !.phase = "closed"],
          raised |-> FALSE]

\* close_archive that cleans up only after a successful open
close_archive_only_when_open(b) ==
    IF b.tmpdir # None /\ b.phase \in {"open", "compare_raised"}
    THEN [box |-> [b EXCEPT !.live = Cleanup(@, b.tmpdir), !.disk = {},
                            !.phase = "closed"],
          raised |-> FALSE]
    ELSE [box |-> [b EXCEPT !.phase = "closed"], raised |-> FALSE]

\* if hasattr(self, "_tmpdir"): self._tmpdir.cleanup()
close_archive(b) ==
    IF b.tmpdir # None
    THEN [box |-> [b EXCEPT !.live = Cleanup(@, b.tmpdir), !.disk = {},
                            !.phase = "closed"],
          raised |-> FALSE]
    ELSE [box |-> [b EXCEPT !.phase = "closed"], raised |-> FALSE]

\* get_member: ArchiveMember(self, member_name), no check of the name
get_member(b, name) == [raised |-> FALSE]

\* extract: os.path.join(self._tmpdir.name, member_name); AttributeError
\* when open_archive never assigned _tmpdir
extract(b, name) == [raised |-> (b.tmpdir = None)]

\* the names asked for: "b", "a/b" and "x"
LookupNames == {<<98>>, <<97, 47, 98>>, <<120>>}

InSeq(x, seq) == \E i \in 1..Len(seq) : seq[i] = x

NoCall ==
    [op |-> "none", name |-> <<>>, phase |-> "new", listed |-> FALSE,
     raised |-> FALSE, changed |-> FALSE]

NewBox(kind, present) ==
    [kind |-> kind, toolPresent |-> present, phase |-> "new", tmpdir |-> None,
     hasMembers |-> FALSE, members |-> <<>>, live |-> {}, disk |-> {},
     ran |-> <<>>, nextId |-> 1]

(***************************************************************************)
(* The state machines.  Each specification exercises one part of the       *)
(* comparator and leaves the variables of the other parts at rest.         *)
(***************************************************************************)
DetectBytes == {0, 31, 139, 65, 68, 66, 100}

\* the contents drawn for detection: every short byte string, alone or
\* followed by enough zero bytes to exceed what f.read(16) returns
Padding(n) == [i \in 1..n |-> 0]
DetectContents ==
    {c \o Padding(n) : c \in SeqsUpTo(DetectBytes, MaxFileLen),
                       n \in {0, HeaderReadSize}}

\* file contents drawn for compare_details: empty, a cut-off gzip magic,
\* a gzip stream, an ADB block, a cut-off ADB magic
SampleContents ==
    {<<>>, <<31>>, <<31, 139, 8>>, <<65, 68, 66, 100, 1>>, <<65, 68, 66>>}

Files == [readable : BOOLEAN, content : SampleContents, body : 1..NumBodies]

NotDetected == [done |-> FALSE, raised |-> FALSE, value |-> None]

DetectAtRest ==
    /\ dfile = [readable |-> FALSE, content |-> <<>>]
    /\ dresult = NotDetected
CompareAtRest ==
    /\ fs = [s \in Sides |-> [readable |-> FALSE, content |-> <<>>, body |-> 1]]
    /\ tools = [t \in {"apk", "tar"} |-> FALSE]
    /\ runs = [x \in Ops \X Sides |-> FALSE]
    /\ cmp = NotCalled
EnumAtRest ==
    /\ tree = {}
    /\ walk1 = NotWalked
    /\ walk2 = NotWalked
ContainerAtRest ==
    /\ box = NewBox("v2", FALSE)
    /\ last = NoCall

detectVars == <<dfile, dresult>>
compareVars == <<fs, tools, runs, cmp>>
enumVars == <<tree, walk1, walk2>>
containerVars == <<box, last>>

\* ---- detection ----
InitDetect ==
    /\ dfile \in [readable : BOOLEAN, content : DetectContents]
    /\ dresult = NotDetected
    /\ CompareAtRest /\ EnumAtRest /\ ContainerAtRest

Detect ==
    /\ ~dresult.done
    /\ LET r == detect_apk_version(dfile)
       IN  dresult' = [done |-> TRUE, raised |-> r.raised, value |-> r.value]
    /\ UNCHANGED <<dfile, compareVars, enumVars, containerVars>>

NextDetect == Detect
SpecDetect == InitDetect /\ [][NextDetect]_vars

\* ---- compare_details ----
InitCompare ==
    /\ fs \in [Sides -> Files]
    /\ tools \in [{"apk", "tar"} -> BOOLEAN]
    /\ runs \in [Ops \X Sides -> BOOLEAN]
    /\ cmp = NotCalled
    /\ DetectAtRest /\ EnumAtRest /\ ContainerAtRest

CompareDetails ==
    /\ ~cmp.done
    /\ \E self \in Sides, other \in Sides : cmp' = compare_details(self, other)
    /\ UNCHANGED <<fs, tools, runs, detectVars, enumVars, containerVars>>

NextCompare == CompareDetails
SpecCompare == InitCompare /\ [][NextCompare]_vars

\* ---- member enumeration ----
InitEnum ==
    /\ tree \in Trees
    /\ walk1 = NotWalked
    /\ walk2 = NotWalked
    /\ DetectAtRest /\ CompareAtRest /\ ContainerAtRest

FirstWalk ==
    /\ ~walk1.done
    /\ \E perm \in Perms :
          walk1' = [done |-> TRUE, members |-> Walk(tree, <<>>, perm)]
    /\ UNCHANGED <<tree, walk2, detectVars, compareVars, containerVars>>

SecondWalk ==
    /\ walk1.done /\ ~walk2.done
    /\ \E perm \in Perms :
          walk2' = [done |-> TRUE, members |-> Walk(tree, <<>>, perm)]
    /\ UNCHANGED <<tree, walk1, detectVars, compareVars, containerVars>>

NextEnum == FirstWalk \/ SecondWalk
SpecEnum == InitEnum /\ [][NextEnum]_vars

\* ---- container lifecycle ----
InitContainer ==
    /\ \E kind \in Kinds, present \in BOOLEAN : box = NewBox(kind, present)
    /\ last = NoCall
    /\ DetectAtRest /\ CompareAtRest /\ EnumAtRest

Call(op, name, raised, changed) ==
    [op |-> op, name |-> name, phase |-> box.phase,
     listed |-> InSeq(name, box.members), raised |-> raised, changed |-> changed]

OpenArchive ==
    /\ box.phase = "new"
    /\ \E o \in [1..3 -> AttemptOutcomes], perm \in Perms :
          LET r == open_archive(box, o, perm)
          IN  /\ box' = r.box
              /\ last' = Call("open_archive", <<>>, r.raised, r.box # box)
    /\ UNCHANGED <<detectVars, compareVars, enumVars>>

\* an exception raised while the members of an open container are compared
MemberComparisonRaises ==
    /\ box.phase = "open"
    /\ box' = [box EXCEPT !.phase = "compare_raised"]
    /\ last' = Call("compare", <<>>, TRUE, FALSE)
    /\ UNCHANGED <<detectVars, compareVars, enumVars>>

GetMember ==
    /\ \E name \in LookupNames :
          last' = Call("get_member", name, get_member(box, name).raised, FALSE)
    /\ UNCHANGED <<box, detectVars, compareVars, enumVars>>

Extract ==
    /\ \E name \in LookupNames :
          last' = Call("extract", name, extract(box, name).raised, FALSE)
    /\ UNCHANGED <<box, detectVars, compareVars, enumVars>>

CloseArchive ==
    /\ LET r == close_archive(box)
       IN  /\ box' = r.box
           /\ last' = Call("close_archive", <<>>, r.raised, r.box # box)
    /\ UNCHANGED <<detectVars, compareVars, enumVars>>

NextContainer ==
    OpenArchive \/ MemberComparisonRaises \/ GetMember \/ Extract \/ CloseArchive
SpecContainer == InitContainer /\ [][NextContainer]_vars

(***************************************************************************)
(* Properties                                                              *)
(***************************************************************************)
IsADBd(c) == Len(c) >= 4 /\ c[1] = 65 /\ c[2] = 68 /\ c[3] = 66 /\ c[4] = 100
IsGzip(c) == Len(c) >= 2 /\ c[1] = 31 /\ c[2] = 139

\* the command op raises when run on the two sides
OpFails(op, self, other) ==
    \/ ~tools[ToolRequired(op)]
    \/ ~runs[<<op, self>>]
    \/ ~runs[<<op, other>>]

\* the two detected variants differ, or one of them is unrecognized
Mixed == ~(cmp.my = cmp.ov /\ cmp.my # None)

OpOfVariant(v) == IF v = 3 THEN "v3" ELSE "v2"

\* segments of a relative path, cut at the separator
RECURSIVE Segments(_)
Segments(s) ==
    IF \A i \in 1..Len(s) : s[i] # Sep THEN <<s>>
    ELSE LET k == CHOOSE i \in 1..Len(s) :
                     s[i] = Sep /\ \A j \in 1..(i - 1) : s[j] # Sep
         IN  <<SubSeq(s, 1, k - 1)>> \o Segments(SubSeq(s, k + 1, Len(s)))

RECURSIVE JoinSegs(_)
JoinSegs(p) ==
    IF Len(p) = 1 THEN p[1] ELSE p[1] \o <<Sep>> \o JoinSegs(Tail(p))

RelPathsOf(t) == {JoinSegs(p) : p \in t}

\* top-down walk order of two paths: at the first segment where they part,
\* a file of that directory comes before anything inside a subdirectory, and
\* two files, or two subdirectories, are ordered by name
WalkBefore(s, t) ==
    LET p == Segments(s)
        q == Segments(t)
    IN  \E k \in 1..Len(p) :
            /\ k <= Len(q)
            /\ \A i \in 1..(k - 1) : p[i] = q[i]
            /\ p[k] # q[k]
            /\ \/ Len(p) = k /\ Len(q) > k
               \/ (Len(p) = k) = (Len(q) = k) /\ StrLess(p[k], q[k])

\* C1: once the container's lifetime has ended (close_archive has run, after
\* a successful open, a failed extraction or a failed member comparison), no
\* temporary directory acquired by open_archive is still live.
C1_NoWorkspaceAfterLifetime ==
    box.phase = "closed" => box.live = {}

\* C1 witness: a v2 container closed after all three extraction attempts
\* failed, the last of them having written into the workspace
C1_Witness ==
    /\ box.phase = "closed"
    /\ box.kind = "v2"
    /\ Len(box.ran) = 3
    /\ ~box.ran[3].ok
    /\ box.ran[3].wrote # {}
    /\ last.op = "close_archive"
    /\ last.phase = "open_failed"

\* C2: every call of compare_details adds a comment about the variants
\* before anything else happens: which variant both inputs share, or, when
\* the detected variants differ (Unknown included), a mismatch comment.
C2_VersionCommentAlways ==
    cmp.done =>
        /\ Len(cmp.events) >= 1
        /\ cmp.events[1] = "comment:version"
        /\ Len(cmp.comments) >= 1
        /\ cmp.my # cmp.ov => cmp.comments[1].kind = "mismatch"
        /\ cmp.my = cmp.ov => cmp.comments[1].kind = "same"

\* C3 as claimed: with differing or unrecognized variants the strategy of
\* the first input's variant is attempted first, the other one only after
\* it failed.
C3_FirstVariantFirst ==
    (cmp.done /\ ~cmp.raised /\ Mixed /\ cmp.my # None) =>
        /\ cmp.attempts[1] = OpOfVariant(cmp.my)
        /\ Len(cmp.attempts) = 2 <=> OpFails(OpOfVariant(cmp.my), cmp.self, cmp.other)

\* C3 as amended: with differing or unrecognized variants the v3 metadata
\* command is attempted first, whichever input has which variant, and the
\* v2 command only after the v3 one raised; nothing else is attempted.
C3_V3ThenV2 ==
    (cmp.done /\ Mixed) =>
        /\ Len(cmp.attempts) \in {1, 2}
        /\ cmp.attempts[1] = "v3"
        /\ Len(cmp.attempts) = 2 <=> OpFails("v3", cmp.self, cmp.other)
        /\ Len(cmp.attempts) = 2 => cmp.attempts[2] = "v2"

\* C3 witness: self is v2, other is v3, the v3 command failed and the v2
\* command was tried after it
C3_Witness ==
    /\ cmp.done
    /\ cmp.my = 2
    /\ cmp.ov = 3
    /\ cmp.attempts = <<"v3", "v2">>

\* C4 as claimed: the member list is strictly increasing in the
\* lexicographic order of the full relative paths.
C4_Lexicographic ==
    walk1.done =>
        \A i, j \in 1..Len(walk1.members) :
            i < j => StrLess(walk1.members[i], walk1.members[j])

\* C4 as amended: the member list holds every extracted file exactly once,
\* in top-down walk order (the sorted files of a directory, then its
\* subdirectories in sorted order), and a second enumeration of the same
\* tree gives the same sequence whatever order the filesystem lists in.
C4_WalkOrder ==
    /\ walk1.done =>
          /\ {walk1.members[i] : i \in 1..Len(walk1.members)} = RelPathsOf(tree)
          /\ Len(walk1.members) = Cardinality(tree)
          /\ \A i, j \in 1..Len(walk1.members) :
                i < j => WalkBefore(walk1.members[i], walk1.members[j])
    /\ walk2.done => walk2.members = walk1.members

\* C4 witness: a tree with the top-level file b, a/b and a-b/b, walked twice
C4_Witness ==
    /\ walk2.done
    /\ tree = {<<<<98>>>>, <<<<97>>, <<98>>>>, <<<<97, 45, 98>>, <<98>>>>}
    /\ walk1.members = <<<<98>>, <<97, 47, 98>>, <<97, 45, 98, 47, 98>>>>

\* C5: the v2 extraction attempts form a chain, a later one running only
\* after all earlier ones failed; open_archive raises exactly when the last
\* attempt failed; and after a successful open the members are exactly the
\* files the successful attempt produced.
C5_FallbackChain ==
    (box.kind = "v2" /\ Len(box.ran) > 0) =>
        /\ \A i \in 1..(Len(box.ran) - 1) : ~box.ran[i].ok
        /\ box.phase = "open_failed" => (Len(box.ran) = 3 /\ ~box.ran[3].ok)
        /\ box.phase = "open" =>
              /\ box.ran[Len(box.ran)].ok
              /\ {box.members[i] : i \in 1..Len(box.members)}
                    = RelPathsOf(box.ran[Len(box.ran)].wrote)

\* C6: detect_apk_version never raises; it returns 3 exactly for a readable
\* file starting with "ADBd", 2 exactly for one starting with 1f 8b, and
\* None otherwise, in particular for an unreadable, empty or too short file.
C6_DetectTotal ==
    dresult.done =>
        /\ ~dresult.raised
        /\ dresult.value \in {2, 3, None}
        /\ dresult.value = 3 <=> (dfile.readable /\ IsADBd(dfile.content))
        /\ dresult.value = 2 <=> (dfile.readable /\ IsGzip(dfile.content))
        /\ (~dfile.readable \/ Len(dfile.content) < 2) => dresult.value = None

\* C6 witness: detection ran on an unreadable file whose content, longer
\* than the header read, starts with the v3 magic
C6_Witness ==
    /\ dresult.done
    /\ ~dfile.readable
    /\ IsADBd(dfile.content)
    /\ Len(dfile.content) > HeaderReadSize

\* C7: compare_details never raises; when the last metadata command it
\* attempted failed, it returns the (empty) list of differences and its
\* last comment is "APK metadata extraction failed".
C7_NoPropagation ==
    cmp.done =>
        /\ ~cmp.raised
        /\ Len(cmp.attempts) >= 1
        /\ OpFails(cmp.attempts[Len(cmp.attempts)], cmp.self, cmp.other) =>
              /\ cmp.differences = <<>>
              /\ Len(cmp.comments) >= 1
              /\ cmp.comments[Len(cmp.comments)].kind = "failed"

\* C7 witness: mixed variants, apk is missing for the first strategy and
\* the second strategy failed too
C7_Witness ==
    /\ cmp.done
    /\ cmp.my = 3
    /\ cmp.ov = 2
    /\ ~tools["apk"]
    /\ cmp.attempts = <<"v3", "v2">>
    /\ OpFails("v2", cmp.self, cmp.other)

\* C8: get_member and extract raise for a name that is not in the member
\* list, and for every call made while the container is not open.
C8_LookupChecked ==
    (last.op \in {"get_member", "extract"} /\ (last.phase # "open" \/ ~last.listed))
        => last.raised

\* C9: close_archive raises in no state; after it the container's workspace
\* is not live; and on a closed container it changes nothing.
C9_CloseTotalIdempotent ==
    last.op = "close_archive" =>
        /\ ~last.raised
        /\ box.tmpdir # None => box.tmpdir \notin box.live
        /\ last.phase = "closed" => ~last.changed

\* C9 witness: close_archive called again on a closed container whose
\* open_archive never acquired a workspace
C9_Witness ==
    /\ last.op = "close_archive"
    /\ last.phase = "closed"
    /\ box.tmpdir = None
    /\ ~box.toolPresent

\* C10: comparing an input with itself returns no difference and adds no
\* mismatch comment, whatever its variant.
C10_Reflexive ==
    (cmp.done /\ cmp.self = cmp.other) =>
        /\ ~cmp.raised
        /\ cmp.differences = <<>>
        /\ \A i \in 1..Len(cmp.comments) : cmp.comments[i].kind # "mismatch"

\* C10 witness: a v2 input compared with itself, the metadata command ran
C10_Witness ==
    /\ cmp.done
    /\ cmp.self = cmp.other
    /\ cmp.my = 2
    /\ cmp.attempts = <<"v2">>
    /\ ~OpFails("v2", cmp.self, cmp.other)
====
